---------------------------- MODULE Spec2Model ----------------------------
(* A model of the EBNF notation reader (src/syntax.py), its error report,  *)
(* and the two projections of the syntax tree (src/spec.py).               *)
(*                                                                         *)
(* A source string is a sequence of one-character strings; offsets are     *)
(* 0-based as in the Python code, so the character at offset i of s is     *)
(* s[i+1] and the slice s[a:b] is SubSeq(s, a+1, b).                       *)
EXTENDS Integers, Sequences, FiniteSets, TLC

VARIABLES source, off, stack, ret, status, report, pass, first, text, diagram

vars == <<source, off, stack, ret, status, report, pass, first, text, diagram>>

(***************************************************************************)
(* Bounds of the model.                                                    *)
(***************************************************************************)
\* Number of tokens concatenated into a source string.
MaxTokens == 4
\* Number of tokens of a source string of character-class symbols.
MaxClassTokens == 5
\* Number of characters of a source string of comment symbols.
MaxCommentChars == 6
\* Length of the long identifier that pushes the failure offset past the
\* excerpt window.
LongLen == 42

(***************************************************************************)
(* Program constants.                                                      *)
(***************************************************************************)
\* Reader.error: the excerpt reaches 40 characters to each side.
Window == 40

(***************************************************************************)
(* Characters.                                                             *)
(***************************************************************************)
\* \s of the re module (ASCII part).
IsSpace(c) == c \in {" ", "\t", "\n", "\r", "\f"}

Digits == {"0", "1", "2", "3", "4", "5", "6", "7", "8", "9"}

\* \w of the re module (ASCII part).
IsWord(c) ==
    c \in Digits \cup {"_"} \cup
          {"a", "b", "c", "d", "e", "f", "g", "h", "i", "j", "k", "l", "m",
           "n", "o", "p", "q", "r", "s", "t", "u", "v", "w", "x", "y", "z",
           "A", "B", "C", "D", "E", "F", "G", "H", "I", "J", "K", "L", "M",
           "N", "O", "P", "Q", "R", "S", "T", "U", "V", "W", "X", "Y", "Z"}

\* [\da-fA-F]
IsHex(c) ==
    c \in Digits \cup {"a", "b", "c", "d", "e", "f", "A", "B", "C", "D", "E", "F"}

\* The result of a regular expression that does not match.
NoMatch == -1

\* s[i], or "" past the end ("" is no character).
At(s, i) == IF 0 <= i /\ i < Len(s) THEN s[i + 1] ELSE ""

\* s[a:b]
Slice(s, a, b) == SubSeq(s, a + 1, IF b < Len(s) THEN b ELSE Len(s))

\* s[off : off+len(value)] == value
StartsWith(s, i, value) ==
    /\ i + Len(value) <= Len(s)
    /\ \A k \in 1..Len(value) : s[i + k] = value[k]

(***************************************************************************)
(* The regular expressions of the reader.  Each operator gives the end     *)
(* offset of the match that re.match finds at offset i, or NoMatch.        *)
(***************************************************************************)
RECURSIVE SkipWs(_, _)
\* _whitespace = \s+ ; skipWhitespace moves the offset to the match's end.
SkipWs(s, i) ==
    IF i < Len(s) /\ IsSpace(s[i + 1]) THEN SkipWs(s, i + 1) ELSE i

RECURSIVE IdentTail(_, _)
IdentTail(s, i) ==
    IF i < Len(s) /\ (IsWord(s[i + 1]) \/ s[i + 1] \in {".", "-"})
    THEN IdentTail(s, i + 1)
    ELSE i

\* _identifier = \w[\w.-]*
MatchIdentifier(s, i) ==
    IF i < Len(s) /\ IsWord(s[i + 1]) THEN IdentTail(s, i + 1) ELSE NoMatch

RECURSIVE QuotedBody(_, _, _)
\* (?:[^q\\]|\\.)*q  -- the dot matches no line feed.
QuotedBody(s, i, q) ==
    IF i >= Len(s) THEN NoMatch
    ELSE IF s[i + 1] = q THEN i + 1
    ELSE IF s[i + 1] = "\\"
         THEN IF i + 1 < Len(s) /\ s[i + 2] # "\n"
              THEN QuotedBody(s, i + 2, q)
              ELSE NoMatch
    ELSE QuotedBody(s, i + 1, q)

\* _literal_sq, _literal_dq
MatchLiteral(s, i, q) ==
    IF At(s, i) = q THEN QuotedBody(s, i + 1, q) ELSE NoMatch

\* _regex = /(?:[^/\\]|\\.)*/i?
MatchRegex(s, i) ==
    IF At(s, i) # "/" THEN NoMatch
    ELSE LET e == QuotedBody(s, i + 1, "/")
         IN  IF e = NoMatch THEN NoMatch
             ELSE IF At(s, e) = "i" THEN e + 1 ELSE e

RECURSIVE CommentBody(_, _)
\* (?:[^*/]|[^*]/|\*[^/])*\*/  -- a backtracking match: the alternatives are
\* tried in order, the repetition is greedy, the first success wins.
CommentBody(s, i) ==
    LET c  == At(s, i)
        d  == At(s, i + 1)
        a1 == IF c # "" /\ c \notin {"*", "/"}
              THEN CommentBody(s, i + 1) ELSE NoMatch
        a2 == IF c # "" /\ c # "*" /\ d = "/"
              THEN CommentBody(s, i + 2) ELSE NoMatch
        a3 == IF c = "*" /\ d # "" /\ d # "/"
              THEN CommentBody(s, i + 2) ELSE NoMatch
    IN  IF a1 # NoMatch THEN a1
        ELSE IF a2 # NoMatch THEN a2
        ELSE IF a3 # NoMatch THEN a3
        ELSE IF c = "*" /\ d = "/" THEN i + 2
        ELSE NoMatch

\* _comment = /\*(?:[^*/]|[^*]/|\*[^/])*\*/
MatchComment(s, i) ==
    IF At(s, i) = "/" /\ At(s, i + 1) = "*" THEN CommentBody(s, i + 2) ELSE NoMatch

\* _class_builtin = \\[DSWdsw]
MatchClassBuiltin(s, i) ==
    IF At(s, i) = "\\" /\ At(s, i + 1) \in {"D", "S", "W", "d", "s", "w"}
    THEN i + 2 ELSE NoMatch

RECURSIVE HexRun(_, _, _)
\* The number of hexadecimal digits at offset i, counted up to max.
HexRun(s, i, max) ==
    IF max > 0 /\ i < Len(s) /\ IsHex(s[i + 1])
    THEN 1 + HexRun(s, i + 1, max - 1) ELSE 0

\* _class_char = [^\[\]\\-] | \\[\[\]\\-] | \\x[\da-fA-F]{2}
\*             | \\u[\da-fA-F]{4} | \\U\{[\da-fA-F]{1,6}\}
MatchClassChar(s, i) ==
    LET c == At(s, i)
        d == At(s, i + 1)
    IN  IF c = "" THEN NoMatch
        ELSE IF c \notin {"[", "]", "\\", "-"} THEN i + 1
        ELSE IF c # "\\" THEN NoMatch
        ELSE IF d \in {"[", "]", "\\", "-"} THEN i + 2
        ELSE IF d = "x" /\ HexRun(s, i + 2, 2) = 2 THEN i + 4
        ELSE IF d = "u" /\ HexRun(s, i + 2, 4) = 4 THEN i + 6
        ELSE IF d = "U" /\ At(s, i + 2) = "{"
             THEN LET n == HexRun(s, i + 3, 6)
                  IN  IF n >= 1 /\ At(s, i + 3 + n) = "}"
                      THEN i + 4 + n ELSE NoMatch
        ELSE NoMatch

\* _class_item = char(?:-(?:char))?
MatchClassItem(s, i) ==
    LET e == MatchClassChar(s, i)
    IN  IF e = NoMatch THEN NoMatch
        ELSE IF At(s, e) = "-" /\ MatchClassChar(s, e + 1) # NoMatch
             THEN MatchClassChar(s, e + 1)
             ELSE e

(***************************************************************************)
(* Reader.error: line and column of the offset, the excerpt, the caret.    *)
(***************************************************************************)
\* One round of the loop "for i in range(self.off)" on the character c at i.
ScanStep(st, c, i) ==
    IF c = "\r"
    THEN [line |-> st.line + 1, col |-> 1, lineStart |-> i, last |-> c]
    ELSE IF c = "\n"
    THEN IF st.last # "\r"
         THEN [line |-> st.line + 1, col |-> 1, lineStart |-> i, last |-> c]
         ELSE [st EXCEPT !.last = c]
    ELSE [st EXCEPT !.col = st.col + 1, !.last = c]

RECURSIVE ScanTo(_, _, _, _)
ScanTo(s, i, n, st) ==
    IF i >= n THEN st ELSE ScanTo(s, i + 1, n, ScanStep(st, s[i + 1], i))

RECURSIVE FindLineEnd(_, _, _)
\* The first offset in range(i, n) holding a line break, or NoMatch (None).
FindLineEnd(s, i, n) ==
    IF i >= n THEN NoMatch
    ELSE IF s[i + 1] \in {"\r", "\n"} THEN i
    ELSE FindLineEnd(s, i + 1, n)

Max(a, b) == IF a >= b THEN a ELSE b

Min(a, b) == IF a <= b THEN a ELSE b

Spaces(n) == [k \in 1..n |-> " "]

\* text_start = max(self.off - 40, lineStart)
TextStart(o, lineStart) == Max(o - Window, lineStart)

\* text_end = lineEnd or (self.off + 40): None and 0 are both false.
TextEnd(o, lineEnd) ==
    IF lineEnd = NoMatch \/ lineEnd = 0 THEN o + Window ELSE lineEnd

\* The message of a failure at offset o: "msg at line:col", the excerpt and
\* the caret line, kept as the fields of a record.
Error(s, o, msg) ==
    LET st == ScanTo(s, 0, o,
                     [line |-> 1, col |-> 1, lineStart |-> 0, last |-> ""])
        textStart == TextStart(o, st.lineStart)
        lineEnd == FindLineEnd(s, o, Min(o + Window, Len(s)))
        textEnd == TextEnd(o, lineEnd)
    IN  [msg    |-> msg,
         line   |-> st.line,
         col    |-> st.col,
         text   |-> Slice(s, textStart, textEnd),
         cursor |-> Spaces(o - textStart) \o <<"^">>]

(***************************************************************************)
(* The syntax tree.                                                        *)
(***************************************************************************)
\* The value None.
None == [type |-> "None"]

\* The ValueError of Container.__init__.
TooFewItems == [type |-> "ValueError"]

\* Container.__init__
Container(type, items) ==
    IF Len(items) < 2 THEN TooFewItems ELSE [type |-> type, items |-> items]

Alternation(items) == Container("Alternation", items)

Sequence(items) == Container("Sequence", items)

Optional(item) == [type |-> "Optional", item |-> item]

ZeroOrMore(item) == [type |-> "ZeroOrMore", item |-> item]

OneOrMore(item) == [type |-> "OneOrMore", item |-> item]

Terminal(txt, cls) == [type |-> "Terminal", text |-> txt, cls |-> cls]

NonTerminal(txt) == [type |-> "NonTerminal", text |-> txt]

Containers == {"Alternation", "Sequence"}

Quantifiers == {"Optional", "ZeroOrMore", "OneOrMore"}

Leaves == {"Terminal", "NonTerminal"}

(***************************************************************************)
(* The text projection (spec.py).                                          *)
(***************************************************************************)
RECURSIVE Join(_, _)
\* sep.join(parts)
Join(sep, parts) ==
    IF Len(parts) = 0 THEN <<>>
    ELSE IF Len(parts) = 1 THEN parts[1]
    ELSE parts[1] \o sep \o Join(sep, Tail(parts))

\* The projection error: "unexpected type".
UnexpectedType == <<"!">>

\* syn2ebnf_lookup: the separator of a container.
EbnfSep(type) == IF type = "Alternation" THEN <<" ", "|", " ">> ELSE <<" ">>

\* syn2ebnf_lookup: itemBrace, the brace flag a container gives its items.
EbnfItemBrace(type) == type = "Sequence"

\* syn2ebnf_lookup: the symbol of a quantifier.
EbnfSymbol(type) ==
    IF type = "Optional" THEN <<"?">>
    ELSE IF type = "ZeroOrMore" THEN <<"*">>
    ELSE <<"+">>

RECURSIVE ToEbnf(_, _)
\* toEbnf(node, brace)
ToEbnf(node, brace) ==
    IF node.type \in Containers
    THEN LET joined == Join(EbnfSep(node.type),
                            [k \in 1..Len(node.items) |->
                                ToEbnf(node.items[k], EbnfItemBrace(node.type))])
         IN  IF brace THEN <<"(">> \o joined \o <<")">> ELSE joined
    ELSE IF node.type \in Quantifiers
    THEN ToEbnf(node.item, TRUE) \o EbnfSymbol(node.type)
    ELSE IF node.type \in Leaves
    THEN node.text
    ELSE UnexpectedType

(***************************************************************************)
(* The diagram projection (spec.py).                                       *)
(***************************************************************************)
\* An anchor without the "rule-" prefix.
HrefBare(txt) == <<"#">> \o txt

\* href=f'#rule-{x.text}'
Href(txt) == <<"#", "r", "u", "l", "e", "-">> \o txt

\* The first argument of rr.Choice: partial(rr.Choice, 0).
ChoiceDefault == 0

RECURSIVE ToRailroad(_)
\* toRailroad(node), by syn2rr_lookup
ToRailroad(node) ==
    IF node.type = "Alternation"
    THEN [prim |-> "Choice", default |-> ChoiceDefault,
          items |-> [k \in 1..Len(node.items) |-> ToRailroad(node.items[k])]]
    ELSE IF node.type = "Sequence"
    THEN [prim |-> "Sequence",
          items |-> [k \in 1..Len(node.items) |-> ToRailroad(node.items[k])]]
    ELSE IF node.type \in Quantifiers
    THEN [prim |-> node.type, item |-> ToRailroad(node.item)]
    ELSE IF node.type = "Terminal"
    THEN [prim |-> "Terminal", text |-> node.text, cls |-> node.cls]
    ELSE IF node.type = "NonTerminal"
    THEN [prim |-> "NonTerminal", text |-> node.text, href |-> Href(node.text)]
    ELSE [prim |-> "ValueError"]

(***************************************************************************)
(* The primitives of the reader.                                           *)
(***************************************************************************)
\* readLiteral(value, skipWhitespace): whether the value was read, and the
\* offset afterwards (skipped whitespace stays skipped when nothing is read).
ReadLiteral(s, i, value, skipWhitespace) ==
    LET j == IF skipWhitespace THEN SkipWs(s, i) ELSE i
    IN  IF StartsWith(s, j, value)
        THEN [ok |-> TRUE, off |-> j + Len(value)]
        ELSE [ok |-> FALSE, off |-> j]

\* The chain of readMatch calls that opens readItem, at the offset j reached
\* by skipWhitespace: the node read, the offset afterwards and whether a
\* quantifier may follow; None when none of the expressions matches.
ReadAtom(s, j) ==
    LET id  == MatchIdentifier(s, j)
        sq  == MatchLiteral(s, j, "'")
        dq  == MatchLiteral(s, j, "\"")
        cm  == MatchComment(s, j)
        re  == MatchRegex(s, j)
    IN  IF id # NoMatch
        THEN [node |-> NonTerminal(Slice(s, j, id)), off |-> id, quantify |-> TRUE]
        ELSE IF sq # NoMatch
        THEN [node |-> Terminal(Slice(s, j, sq), "literal"), off |-> sq, quantify |-> TRUE]
        ELSE IF dq # NoMatch
        THEN [node |-> Terminal(Slice(s, j, dq), "literal"), off |-> dq, quantify |-> TRUE]
        ELSE IF cm # NoMatch
        THEN [node |-> Terminal(Slice(s, j, cm), "comment"), off |-> cm, quantify |-> FALSE]
        ELSE IF re # NoMatch
        THEN [node |-> Terminal(Slice(s, j, re), "regex"), off |-> re, quantify |-> TRUE]
        ELSE [node |-> None, off |-> j, quantify |-> FALSE]

\* A reader that reads quantifiers in a loop, wrapping the item each time.
ReadQuantifierStacking(s, i, item) ==
    LET q == ReadLiteral(s, i, <<"?">>, TRUE)
        z == ReadLiteral(s, i, <<"*">>, TRUE)
        p == ReadLiteral(s, i, <<"+">>, TRUE)
        r == ReadLiteral(s, q.off, <<"?">>, TRUE)
    IN  IF q.ok /\ r.ok THEN [node |-> Optional(Optional(item)), off |-> r.off]
        ELSE IF q.ok THEN [node |-> Optional(item), off |-> q.off]
        ELSE IF z.ok THEN [node |-> ZeroOrMore(item), off |-> z.off]
        ELSE IF p.ok THEN [node |-> OneOrMore(item), off |-> p.off]
        ELSE [node |-> item, off |-> p.off]

\* readItem, "read quantifier": the item, wrapped once when '?', '*' or '+'
\* follows, and the offset afterwards.
ReadQuantifier(s, i, item) ==
    LET q == ReadLiteral(s, i, <<"?">>, TRUE)
        z == ReadLiteral(s, i, <<"*">>, TRUE)
        p == ReadLiteral(s, i, <<"+">>, TRUE)
    IN  IF q.ok THEN [node |-> Optional(item), off |-> q.off]
        ELSE IF z.ok THEN [node |-> ZeroOrMore(item), off |-> z.off]
        ELSE IF p.ok THEN [node |-> OneOrMore(item), off |-> p.off]
        ELSE [node |-> item, off |-> p.off]

\* A class item expression that also matches the empty string.
ReadClassItemEmpty(s, i) ==
    IF MatchClassBuiltin(s, i) # NoMatch
    THEN MatchClassBuiltin(s, i)
    ELSE IF MatchClassItem(s, i) # NoMatch
    THEN MatchClassItem(s, i)
    ELSE i

\* readClassItem: the end of the class item at offset i, or NoMatch.
ReadClassItem(s, i) ==
    IF MatchClassBuiltin(s, i) # NoMatch
    THEN MatchClassBuiltin(s, i)
    ELSE MatchClassItem(s, i)

\* readClass, the two positional flags after '[': the items they leave and
\* the offset afterwards.
ReadClassFlags(s, i) ==
    LET neg  == ReadLiteral(s, i, <<"^">>, FALSE)
        dash == ReadLiteral(s, neg.off, <<"-">>, FALSE)
    IN  [items |-> (IF neg.ok THEN << <<"^">> >> ELSE <<>>)
                   \o (IF dash.ok THEN << <<"-">> >> ELSE <<>>),
         off |-> dash.off]

\* A raise of ValueError(self.error(msg)), as the outcome of a step.
Raising(msg) == [type |-> "Raise", msg |-> msg]

\* A readAlternation that builds the Alternation of a single alternative.
AltResultEager(items) ==
    IF Len(items) >= 1 THEN Alternation(items)
    ELSE Raising("invalid character")

\* readAlternation, after the loop.
AltResult(items) ==
    IF Len(items) > 1 THEN Alternation(items)
    ELSE IF Len(items) = 1 THEN items[1]
    ELSE Raising("invalid character")

\* A readSequence that returns None for no item instead of raising.
SeqResultLenient(items) ==
    IF Len(items) > 1 THEN Sequence(items)
    ELSE IF Len(items) = 1 THEN items[1]
    ELSE None

\* readSequence, after the loop.
SeqResult(items) ==
    IF Len(items) > 1 THEN Sequence(items)
    ELSE IF Len(items) = 1 THEN items[1]
    ELSE Raising("invalid character")

\* readClass: Terminal(f'[{"".join(items)}]', cls="char-class")
ClassResult(items) == Terminal(<<"[">> \o Join(<<>>, items) \o <<"]">>, "char-class")

\* readClass: "if len(items) == 0: raise"
ClassIsEmpty(items) == Len(items) = 0

(***************************************************************************)
(* The reader as a machine: one frame per active call of readAlternation   *)
(* ("alt"), readSequence ("seq"), readItem ("item") and readClass          *)
(* ("class"); ret is the value the last finished call returned.            *)
(***************************************************************************)
Frame(fn, pc) == [fn |-> fn, pc |-> pc, items |-> <<>>, item |-> None]

Top == stack[Len(stack)]

Running(fn, pc) ==
    /\ status = "running"
    /\ Len(stack) > 0
    /\ Top.fn = fn
    /\ Top.pc = pc

\* The top call goes on as frame fr, the offset at o.
Goto(fr, o) ==
    /\ stack' = [stack EXCEPT ![Len(stack)] = fr]
    /\ off' = o
    /\ ret' = None
    /\ UNCHANGED <<source, status, report, pass, first, text, diagram>>

\* The top call goes on as frame fr and calls callee.
Call(fr, callee, o) ==
    /\ stack' = Append([stack EXCEPT ![Len(stack)] = fr], callee)
    /\ off' = o
    /\ ret' = None
    /\ UNCHANGED <<source, status, report, pass, first, text, diagram>>

\* raise ValueError(self.error(msg)) at offset o: no handler catches it.
Raise(msg, o) ==
    /\ stack' = <<>>
    /\ off' = o
    /\ ret' = None
    /\ status' = "error"
    /\ report' = Error(source, o, msg)
    /\ UNCHANGED <<source, pass, first, text, diagram>>

\* The top call ends with the outcome v: a value returned to the caller, or
\* an exception (of self.error, or of Container.__init__).
Finish(v, o) ==
    IF v.type = "Raise" THEN Raise(v.msg, o)
    ELSE IF v.type = "ValueError" THEN Raise("must have at least two items", o)
    ELSE /\ stack' = SubSeq(stack, 1, Len(stack) - 1)
         /\ off' = o
         /\ ret' = v
         /\ UNCHANGED <<source, status, report, pass, first, text, diagram>>

\* read(): alternation = self.readAlternation()
Read ==
    /\ status = "new"
    /\ status' = "running"
    /\ stack' = <<Frame("alt", "call")>>
    /\ UNCHANGED <<source, off, ret, report, pass, first, text, diagram>>

\* read(): the check for unconsumed source, and the return.
ReadReturn ==
    /\ status = "running"
    /\ stack = <<>>
    /\ IF off < Len(source)
       THEN Raise("invalid character", off)
       ELSE /\ status' = "ok"
            /\ UNCHANGED <<source, off, stack, ret, report, pass, first, text, diagram>>

\* readAlternation: alternation.append(self.readSequence()), the call.
AltCallSeq ==
    /\ Running("alt", "call")
    /\ Call([Top EXCEPT !.pc = "ret"], Frame("seq", "call"), off)

\* readAlternation: the append, "if not self.readLiteral('|'): break" and
\* the return.
AltNext ==
    /\ Running("alt", "ret")
    /\ LET items == Append(Top.items, ret)
           bar   == ReadLiteral(source, off, <<"|">>, TRUE)
       IN  IF bar.ok
           THEN Goto([Top EXCEPT !.items = items, !.pc = "call"], bar.off)
           ELSE Finish(AltResult(items), bar.off)

\* readSequence: "if item := self.readItem()", the call.
SeqCallItem ==
    /\ Running("seq", "call")
    /\ Call([Top EXCEPT !.pc = "ret"], Frame("item", "atom"), off)

\* readSequence: the append or the break, and the return.
SeqNext ==
    /\ Running("seq", "ret")
    /\ IF ret # None
       THEN Goto([Top EXCEPT !.items = Append(Top.items, ret), !.pc = "call"], off)
       ELSE Finish(SeqResult(Top.items), off)

\* readItem: identifier, literal, comment, regex, or the call of readClass.
ItemAtom ==
    /\ Running("item", "atom")
    /\ LET a == ReadAtom(source, SkipWs(source, off))
       IN  IF a.node = None
           THEN Call([Top EXCEPT !.pc = "class"], Frame("class", "open"), a.off)
           ELSE IF a.quantify
           THEN Goto([Top EXCEPT !.item = a.node, !.pc = "quant"], a.off)
           ELSE Finish(a.node, a.off)

\* readItem: the class read, or '.', or '(' and the call of
\* readAlternation, or "no next item".
ItemAfterClass ==
    /\ Running("item", "class")
    /\ LET dot  == ReadLiteral(source, off, <<".">>, TRUE)
           open == ReadLiteral(source, off, <<"(">>, TRUE)
       IN  IF ret # None
           THEN Goto([Top EXCEPT !.item = ret, !.pc = "quant"], off)
           ELSE IF dot.ok
           THEN Goto([Top EXCEPT !.item = Terminal(<<".">>, "char-class"),
                                 !.pc = "quant"], dot.off)
           ELSE IF open.ok
           THEN Call([Top EXCEPT !.pc = "group"], Frame("alt", "call"), open.off)
           ELSE Finish(None, open.off)

\* readItem: the group read, and its closing brace.
ItemAfterGroup ==
    /\ Running("item", "group")
    /\ LET close == ReadLiteral(source, off, <<")">>, TRUE)
       IN  IF close.ok
           THEN Goto([Top EXCEPT !.item = ret, !.pc = "quant"], close.off)
           ELSE Raise("expecting closing brace ')'", close.off)

\* readItem: the quantifier, and the return.
ItemQuantifier ==
    /\ Running("item", "quant")
    /\ LET q == ReadQuantifier(source, off, Top.item)
       IN  Finish(q.node, q.off)

\* readClass: '[' and the two flags.
ClassOpen ==
    /\ Running("class", "open")
    /\ LET open  == ReadLiteral(source, off, <<"[">>, TRUE)
           flags == ReadClassFlags(source, open.off)
       IN  IF open.ok
           THEN Goto([Top EXCEPT !.items = flags.items, !.pc = "items"], flags.off)
           ELSE Finish(None, open.off)

\* readClass: one round of "while item := self.readClassItem()".
ClassItem ==
    /\ Running("class", "items")
    /\ ReadClassItem(source, off) # NoMatch
    /\ LET e == ReadClassItem(source, off)
       IN  Goto([Top EXCEPT !.items = Append(Top.items, Slice(source, off, e))], e)

\* readClass: the end of the class, by ']'.
ClassClose(items, o) ==
    LET close == ReadLiteral(source, o, <<"]">>, FALSE)
    IN  IF close.ok
        THEN Finish(ClassResult(items), close.off)
        ELSE Raise("expecting closing ']'", close.off)

\* readClass: after the items, the check for none, the trailing '-' and the
\* call for a nested class, or the end of the class.
ClassEndItems ==
    /\ Running("class", "items")
    /\ ReadClassItem(source, off) = NoMatch
    /\ LET dash == ReadLiteral(source, off, <<"-">>, FALSE)
       IN  IF ClassIsEmpty(Top.items)
           THEN Raise("expecting char-class items", off)
           ELSE IF dash.ok
           THEN Call([Top EXCEPT !.items = Append(Top.items, <<"-">>), !.pc = "nested"],
                     Frame("class", "open"), dash.off)
           ELSE ClassClose(Top.items, off)

\* readClass: the nested class spliced in, and the end of the class.
ClassAfterNested ==
    /\ Running("class", "nested")
    /\ ClassClose(IF ret # None THEN Append(Top.items, ret.text) ELSE Top.items, off)

\* toRailroad(node) on the tree read.
ProjectDiagram ==
    /\ status = "ok"
    /\ pass = 1
    /\ diagram = None
    /\ diagram' = ToRailroad(ret)
    /\ UNCHANGED <<source, off, stack, ret, status, report, pass, first, text>>

\* toEbnf(node, False) on the tree read.
ProjectText ==
    /\ status = "ok"
    /\ pass = 1
    /\ text = None
    /\ text' = [type |-> "Text", chars |-> ToEbnf(ret, FALSE)]
    /\ UNCHANGED <<source, off, stack, ret, status, report, pass, first, diagram>>

\* syntax.Reader(text).read() on the text projection: a new reader.
Reparse ==
    /\ status = "ok"
    /\ pass = 1
    /\ text # None
    /\ source' = text.chars
    /\ off' = 0
    /\ stack' = <<Frame("alt", "call")>>
    /\ ret' = None
    /\ status' = "running"
    /\ pass' = 2
    /\ first' = ret
    /\ UNCHANGED <<report, text, diagram>>

ReaderStep ==
    \/ Read
    \/ ReadReturn
    \/ AltCallSeq
    \/ AltNext
    \/ SeqCallItem
    \/ SeqNext
    \/ ItemAtom
    \/ ItemAfterClass
    \/ ItemAfterGroup
    \/ ItemQuantifier
    \/ ClassOpen
    \/ ClassItem
    \/ ClassEndItems
    \/ ClassAfterNested

(***************************************************************************)
(* Source strings: up to MaxTokens tokens of a token set, concatenated,    *)
(* and the scenarios of the documentation.                                 *)
(***************************************************************************)
TokenStrings(tokens, n) == UNION {[1..k -> tokens] : k \in 0..n}

Inputs(tokens, n) == {Join(<<>>, ts) : ts \in TokenStrings(tokens, n)}

\* 'a' | 'b'   foo bar*   [a-zA-Z_]   (a | b) c   a ++   []   [a-b-[c]]
Scenarios ==
    { <<"'", "a", "'", " ", "|", " ", "'", "b", "'">>,
      <<"f", "o", "o", " ", "b", "a", "r", "*">>,
      <<"[", "a", "-", "z", "A", "-", "Z", "_", "]">>,
      <<"(", "a", " ", "|", " ", "b", ")", " ", "c">>,
      <<"a", " ", "+", "+">>,
      <<"[", "]">>,
      <<"[", "a", "-", "b", "-", "[", "c", "]", "]">> }

\* The block comment /**/ as one token.
Comment == <<"/", "*", "*", "/">>

\* The character class [a] as one token.
Class == <<"[", "a", "]">>

GrammarTokens ==
    { <<"a">>, <<" ">>, <<"|">>, <<"(">>, <<")">>, <<"?">>, Comment, Class }

ClassTokens == { <<"[">>, <<"]">>, <<"^">>, <<"-">>, <<"a">>, <<" ">> }

CommentTokens == { <<"/">>, <<"*">>, <<"a">>, <<"?">> }

\* An identifier longer than the excerpt window.
LongWord == [k \in 1..LongLen |-> "a"]

LineTokens == { <<"a">>, <<" ">>, <<")">>, <<"\n">>, <<"\r">>, LongWord }

\* Source strings of several lines, with the long identifier at most once.
LineInputs ==
    {Join(<<>>, ts) : ts \in {x \in TokenStrings(LineTokens, MaxTokens) :
                                Cardinality({k \in DOMAIN x : x[k] = LongWord}) <= 1}}

\* The state after Reader(source): the offset at 0, nothing read.
InitWith(sources) ==
    /\ source \in sources
    /\ off = 0
    /\ stack = <<>>
    /\ ret = None
    /\ status = "new"
    /\ report = None
    /\ pass = 1
    /\ first = None
    /\ text = None
    /\ diagram = None

Init == InitWith(Inputs(GrammarTokens, MaxTokens) \cup Scenarios)

Next == ReaderStep \/ ProjectDiagram

Spec == Init /\ [][Next]_vars

NextRoundTrip == ReaderStep \/ ProjectText \/ Reparse

SpecRoundTrip == Init /\ [][NextRoundTrip]_vars

InitClass == InitWith(Inputs(ClassTokens, MaxClassTokens) \cup Scenarios)

SpecClass == InitClass /\ [][Next]_vars

InitComment == InitWith(Inputs(CommentTokens, MaxCommentChars) \cup Scenarios)

SpecComment == InitComment /\ [][Next]_vars

InitLines == InitWith(LineInputs \cup Scenarios)

SpecLines == InitLines /\ [][Next]_vars

(***************************************************************************)
(* Properties.                                                             *)
(***************************************************************************)
\* The first read() of the source has ended, with a tree or a failure.
Done == pass = 1 /\ status \in {"ok", "error"}

IsPrefix(p, s) == Len(p) <= Len(s) /\ SubSeq(s, 1, Len(p)) = p

QuantifierSymbols == {"?", "*", "+"}

(* C1: round trip.  When the text projection of a tree the reader returned *)
(* has been read again, that second read succeeded and returned a tree     *)
(* equal to the first.                                                     *)
C1_RoundTrip ==
    (pass = 2 /\ status \in {"ok", "error"}) => (status = "ok" /\ ret = first)

RECURSIVE WellFormed(_)
WellFormed(n) ==
    IF n.type \in Containers
    THEN /\ DOMAIN n = {"type", "items"}
         /\ Len(n.items) >= 2
         /\ \A k \in 1..Len(n.items) : WellFormed(n.items[k])
    ELSE IF n.type \in Quantifiers
    THEN DOMAIN n = {"type", "item"} /\ WellFormed(n.item)
    ELSE IF n.type = "Terminal"
    THEN DOMAIN n = {"type", "text", "cls"}
    ELSE IF n.type = "NonTerminal"
    THEN DOMAIN n = {"type", "text"}
    ELSE FALSE

IsIdentifierText(s) == Len(s) >= 1 /\ \A k \in 1..Len(s) : IsWord(s[k])

(* C2: tree invariants.  Every tree a read returns has, at every node, at  *)
(* least two children under an Alternation or Sequence, exactly one child  *)
(* under a quantifier and none under a leaf; and a source that is a single *)
(* identifier is read as the bare NonTerminal of that identifier.          *)
C2_TreeInvariants ==
    /\ status = "ok" => WellFormed(ret)
    /\ (Done /\ IsIdentifierText(source)) =>
           (status = "ok" /\ ret = NonTerminal(source))

C2_Witness ==
    /\ status = "ok"
    /\ ret.type = "Alternation"
    /\ ret.items[1].type \in Quantifiers

Gaps == { <<>>, <<" ">> }

\* What may stand before an item.
Openings == { <<>>, <<" ">>, <<"(">>, <<"a", " ">>, <<"a", "|">> }

\* Atoms that take a quantifier.
PlainAtoms == { <<"a">>, Class, <<"(", "a", ")">> }

\* The offsets of the second of two quantifier symbols that follow one of
\* the atoms at the start of s.
SecondQuantifierOffsets(atoms, s) ==
    { Len(o) + Len(a) + Len(g) + 1 + Len(h) :
        <<o, a, g, h>> \in
          { x \in Openings \X atoms \X Gaps \X Gaps :
              \E q1, q2 \in QuantifierSymbols :
                IsPrefix(x[1] \o x[2] \o x[3] \o <<q1>> \o x[4] \o <<q2>>, s) } }

\* A read of a source with two quantifier symbols after one of the atoms
\* fails at the offset of the second symbol.
FailsAtSecondQuantifier(atoms) ==
    Done =>
      \A p \in SecondQuantifierOffsets(atoms, source) :
          /\ status = "error"
          /\ off = p
          /\ report.line = 1
          /\ report.col = p + 1

(* C3 as stated: after any atom, a comment included, two quantifier        *)
(* symbols make the read fail at the offset of the second symbol.          *)
C3_Original == FailsAtSecondQuantifier(PlainAtoms \cup {Comment})

(* C3, amended: after an atom other than a comment, two quantifier symbols *)
(* (with or without whitespace around them) make the read fail at the      *)
(* offset of the second symbol, and no tree is returned.                   *)
C3_QuantifiersDoNotStack == FailsAtSecondQuantifier(PlainAtoms)

C3_Witness ==
    /\ Done
    /\ status = "error"
    /\ \E p \in SecondQuantifierOffsets(PlainAtoms, source) : p = off /\ p >= 3

\* The C block comments: from the opening to the first closing of a comment.
IsBlockComment(c) ==
    /\ Len(c) >= 4
    /\ c[1] = "/" /\ c[2] = "*"
    /\ c[Len(c) - 1] = "*" /\ c[Len(c)] = "/"
    /\ \A k \in 3..(Len(c) - 2) : ~(c[k] = "*" /\ c[k + 1] = "/")

(* C4: comment exclusion.  A source that is a block comment is read as the *)
(* Terminal of the whole comment, tagged "comment"; a source that is a     *)
(* block comment followed by one quantifier symbol is not read as a        *)
(* quantified node: the read fails at the offset of the symbol, with       *)
(* "invalid character".                                                    *)
C4_CommentExclusion ==
    Done =>
      /\ IsBlockComment(source) =>
           (status = "ok" /\ ret = Terminal(source, "comment"))
      /\ (/\ Len(source) >= 5
          /\ source[Len(source)] \in QuantifierSymbols
          /\ IsBlockComment(SubSeq(source, 1, Len(source) - 1))) =>
           (/\ status = "error"
            /\ off = Len(source) - 1
            /\ report.msg = "invalid character")

IsPlain(c) == IsWord(c) \/ IsSpace(c) \/ c \in {"|", "(", ")", "?", "*", "+", "."}

IsSignificant(c) == ~IsSpace(c)

\* A source in which an alternative has no item: nothing but whitespace, a
\* leading or a trailing '|', or, where every '|', '(' and ')' is a symbol
\* of the notation, two of them in a row with nothing between.
ZeroItems(s) ==
    LET g == SelectSeq(s, IsSignificant)
    IN  \/ g = <<>>
        \/ g[1] = "|"
        \/ g[Len(g)] = "|"
        \/ /\ \A k \in 1..Len(s) : IsPlain(s[k])
           /\ \E k \in 1..(Len(g) - 1) :
                <<g[k], g[k + 1]>> \in
                  { <<"|", "|">>, <<"(", ")">>, <<"(", "|">>, <<"|", ")">> }

(* C5: zero-item constructs are errors.  A read of a source in which an    *)
(* alternative has no item fails with a positioned error and returns no    *)
(* tree; for the empty source the failure is at offset 0, line 1,          *)
(* column 1.                                                               *)
C5_ZeroItemsFail ==
    (Done /\ ZeroItems(source)) =>
        /\ status = "error"
        /\ ret = None
        /\ report # None
        /\ report.line >= 1 /\ report.col >= 1
        /\ source = <<>> => (off = 0 /\ report.line = 1 /\ report.col = 1)

C5_Witness ==
    /\ Done
    /\ status = "error"
    /\ ZeroItems(source)
    /\ Len(source) >= 3
    /\ source[1] = "a"

\* A bracketed source with no class item after the flags '^' and '-': the
\* closing bracket follows them at once and ends the source.
NoClassItem(s) ==
    LET neg  == IF At(s, 1) = "^" THEN 2 ELSE 1
        body == IF At(s, neg) = "-" THEN neg + 1 ELSE neg
    IN  /\ At(s, 0) = "["
        /\ At(s, body) = "]"
        /\ Len(s) = body + 1

(* C6: a character class holds at least one class item.  A read of a       *)
(* bracketed source with no class item after the flags fails with          *)
(* "expecting char-class items".                                           *)
C6_EmptyClassFails ==
    (Done /\ NoClassItem(source)) =>
        (status = "error" /\ report.msg = "expecting char-class items")

\* The number of spaces before the caret.
CaretColumn == Len(report.cursor) - 1

(* C7: excerpt and caret.  The excerpt of a failure holds no line break    *)
(* and at most 40 characters to each side of the offset, and the caret     *)
(* stands under the character at the offset: the characters of the excerpt *)
(* before the caret are those of the source right before the offset.       *)
C7_ExcerptAndCaret ==
    status = "error" =>
        /\ \A k \in 1..Len(report.text) : report.text[k] \notin {"\r", "\n"}
        /\ CaretColumn <= Window
        /\ Len(report.text) - CaretColumn <= Window
        /\ CaretColumn <= Len(report.text)
        /\ CaretColumn <= off
        /\ SubSeq(report.text, 1, CaretColumn) = Slice(source, off - CaretColumn, off)

RECURSIVE Mirrors(_, _)
\* The primitive d is the image of the node n, variant by variant.
Mirrors(n, d) ==
    IF n.type = "Alternation"
    THEN /\ d.prim = "Choice" /\ d.default = 0
         /\ Len(d.items) = Len(n.items)
         /\ \A k \in 1..Len(n.items) : Mirrors(n.items[k], d.items[k])
    ELSE IF n.type = "Sequence"
    THEN /\ d.prim = "Sequence"
         /\ Len(d.items) = Len(n.items)
         /\ \A k \in 1..Len(n.items) : Mirrors(n.items[k], d.items[k])
    ELSE IF n.type \in Quantifiers
    THEN d.prim = n.type /\ Mirrors(n.item, d.item)
    ELSE IF n.type = "Terminal"
    THEN d = [prim |-> "Terminal", text |-> n.text, cls |-> n.cls]
    ELSE /\ n.type = "NonTerminal"
         /\ d = [prim |-> "NonTerminal", text |-> n.text,
                 href |-> <<"#", "r", "u", "l", "e", "-">> \o n.text]

RECURSIVE SumOf(_)
SumOf(ns) == IF Len(ns) = 0 THEN 0 ELSE Head(ns) + SumOf(Tail(ns))

RECURSIVE NodeCount(_)
NodeCount(n) ==
    IF n.type \in Containers
    THEN 1 + SumOf([k \in 1..Len(n.items) |-> NodeCount(n.items[k])])
    ELSE IF n.type \in Quantifiers THEN 1 + NodeCount(n.item)
    ELSE 1

RECURSIVE PrimCount(_)
PrimCount(d) ==
    IF d.prim \in {"Choice", "Sequence"}
    THEN 1 + SumOf([k \in 1..Len(d.items) |-> PrimCount(d.items[k])])
    ELSE IF d.prim \in Quantifiers THEN 1 + PrimCount(d.item)
    ELSE 1

(* C8: the diagram projection is one to one.  The diagram of a tree the    *)
(* reader returned is no projection error and has the shape of the tree:   *)
(* a Choice with default branch 0 for an Alternation, a Sequence for a     *)
(* Sequence, the repetition of the same name for a quantifier, a box with  *)
(* text and tag for a Terminal, a box with text and '#rule-<text>' for a   *)
(* NonTerminal, children in order, as many primitives as nodes.            *)
C8_DiagramIsStructural ==
    (status = "ok" /\ diagram # None) =>
        (Mirrors(ret, diagram) /\ PrimCount(diagram) = NodeCount(ret))

C8_Witness ==
    /\ status = "ok"
    /\ diagram # None
    /\ diagram.prim = "Choice"
    /\ diagram.items[1].prim = "Sequence"
    /\ diagram.items[2].prim = "NonTerminal"

RECURSIVE TerminalTexts(_)
\* The texts of the Terminals of a tree.
TerminalTexts(n) ==
    IF n.type \in Containers
    THEN UNION {TerminalTexts(n.items[k]) : k \in 1..Len(n.items)}
    ELSE IF n.type \in Quantifiers THEN TerminalTexts(n.item)
    ELSE IF n.type = "Terminal" THEN {n.text}
    ELSE {}

IsSubstring(t, s) ==
    \E a \in 0..(Len(s) - Len(t)) : SubSeq(s, a + 1, a + Len(t)) = t

(* C9: Terminal text is verbatim.  The text of every Terminal of a tree    *)
(* the reader returned is a contiguous part of the source, whitespace      *)
(* inside a character class included.                                      *)
C9_TerminalTextVerbatim ==
    (Done /\ status = "ok") =>
        \A t \in TerminalTexts(ret) : IsSubstring(t, source)

\* The weight of an active call at its position: what it may still do
\* without reading a character.
FrameWeight(fr) ==
    IF fr.fn = "alt" THEN (IF fr.pc = "call" THEN 20 ELSE 1)
    ELSE IF fr.fn = "seq" THEN (IF fr.pc = "call" THEN 18 ELSE 11)
    ELSE IF fr.fn = "item"
    THEN (IF fr.pc = "atom" THEN 5
          ELSE IF fr.pc = "class" THEN 3
          ELSE IF fr.pc = "quant" THEN 12
          ELSE 1)
    ELSE 1

\* A rank of the state of a read: 40 for each character not yet read, the
\* weights of the active calls, and 10 for a value just returned.
Rank ==
    40 * (Len(source) - off)
      + SumOf([k \in 1..Len(stack) |-> FrameWeight(stack[k])])
      + (IF ret # None THEN 10 ELSE 0)

\* The top call stands where one of the steps of the reader goes on (the
\* two steps at "items" of readClass take the two outcomes of readClassItem).
AtHandler ==
    \/ stack = <<>>
    \/ <<Top.fn, Top.pc>> \in
         { <<"alt", "call">>, <<"alt", "ret">>, <<"seq", "call">>, <<"seq", "ret">>,
           <<"item", "atom">>, <<"item", "class">>, <<"item", "group">>,
           <<"item", "quant">>, <<"class", "open">>, <<"class", "items">>,
           <<"class", "nested">> }

(* C10: progress and termination.  Within a read the offset never          *)
(* decreases and never exceeds the length of the source; a round of the    *)
(* loop of readAlternation or of readClass reads at least one character;   *)
(* every step of the read lowers a rank that is never negative, so that no *)
(* loop and no descent repeats without reading; and a read that has not    *)
(* ended stands where a step goes on.  Hence read() ends.                  *)
C10_Progress ==
    [][pass' = pass =>
         /\ off <= off' /\ off' <= Len(source)
         /\ status' = "running" => (Rank' >= 0 /\ AtHandler')
         /\ (status = "running" /\ status' = "running") => Rank' < Rank
         /\ (/\ status = "running" /\ status' = "running"
             /\ Len(stack') = Len(stack)
             /\ Top.pc \in {"ret", "items"}
             /\ Top.fn \in {"alt", "class"}
             /\ Top'.pc \in {"call", "items"}) => off < off'
      ]_vars

C10_Witness ==
    /\ status = "running"
    /\ Len(stack) >= 5
    /\ Top.fn = "seq"
    /\ Top.pc = "call"
    /\ Len(Top.items) >= 1

=============================================================================
